---------------------------- MODULE Spec2Model ----------------------------
(***************************************************************************)
(* A model of the object-storage administration console:                   *)
(*   - ObjectStorageRepository (src/db/object_storage_repo.py): the        *)
(*     profile table and its save / list / delete / update / get-by-id     *)
(*     operations;                                                         *)
(*   - ObjectStorageUtil (src/utils/object_storage_utils.py): the remote   *)
(*     listing, the row transformation, the display name and the           *)
(*     human-readable size.                                                *)
(*   - ObjectStorageApp (src/tools/object_storage.py): the detail view of  *)
(*     a profile, and the folder navigation of the listing.                *)
(* Strings that the code takes apart (keys, prefixes, display names) are   *)
(* sequences of one-character strings; strings that it only compares or    *)
(* stores are TLA+ strings.                                                *)
(***************************************************************************)
EXTENDS Integers, Sequences, FiniteSets, TLC

VARIABLES
    table,      \* the rows of object_storage_configs
    prev,       \* the rows before the last repository operation
    last,       \* the last repository operation: its arguments and outcome
    bucket,     \* the objects of the remote bucket
    prefix,     \* the prefix of the listing request
    s3,         \* the last list_objects call: its fault and outcome
    rows,       \* the last transform_object_list call: its outcome
    sess,       \* the database sessions: those open, and the last operation's
    request,    \* the last remote request of the detail view
    nav         \* the last folder selection of the navigation

repoVars == <<table, prev, last>>
listVars == <<bucket, prefix, s3, rows>>
uiVars == <<request, nav>>
vars == <<table, prev, last, bucket, prefix, s3, rows, sess, request, nav>>

(***************************************************************************)
(* Bounds.                                                                 *)
(***************************************************************************)
\* Primary keys are drawn from 1 .. MaxId.
MaxId == 3

(***************************************************************************)
(* Python values.                                                          *)
(***************************************************************************)
\* Python's None, where a string is expected.
None == "<None>"

\* The profile names in use.
Names == {"n1", "n2"}
Ids == 1..MaxId

(***************************************************************************)
(* The table object_storage_configs.                                       *)
(***************************************************************************)
\* The columns that save_config reads from its dict, in the order read.
ConfigKeys ==
    <<"name", "endpoint", "port", "access_key", "secret_key", "region",
      "bucket_name">>

\* The columns declared nullable=False (the primary key aside).
NotNullColumns ==
    {"name", "endpoint", "access_key", "secret_key", "bucket_name"}

\* NewConfig with region=config['port'].
NewConfigRegionFromPort(config, id) ==
    [id |-> id,
     name |-> config["name"],
     endpoint |-> config["endpoint"],
     port |-> config["port"],
     access_key |-> config["access_key"],
     secret_key |-> config["secret_key"],
     region |-> config["port"],
     bucket_name |-> config["bucket_name"]]

\* The row that ObjectStorageConfig(...) builds from the dict, once the
\* database has assigned its primary key.
NewConfig(config, id) ==
    [id |-> id,
     name |-> config["name"],
     endpoint |-> config["endpoint"],
     port |-> config["port"],
     access_key |-> config["access_key"],
     secret_key |-> config["secret_key"],
     region |-> config["region"],
     bucket_name |-> config["bucket_name"]]

\* NameTaken without unique=True.
NameTakenNever(tbl, name) == FALSE

\* name = Column(String, nullable=False, unique=True)
NameTaken(tbl, name) == \E r \in tbl : r.name = name

\* A nullable=False column holds NULL.
NullViolation(row) == \E c \in NotNullColumns : row[c] = None

\* id = Column(Integer, primary_key=True): the database assigns a key that
\* no row holds.
FreeIds(tbl) == Ids \ { r.id : r \in tbl }

\* ByName without the filter.
ByNameUnfiltered(tbl, name) == tbl

\* session.query(ObjectStorageConfig).filter_by(name=...).first()
ByName(tbl, name) == { r \in tbl : r.name = name }

\* session.query(ObjectStorageConfig).filter_by(id=...).first()
ById(tbl, id) == { r \in tbl : r.id = id }

(***************************************************************************)
(* What an operation shows and returns.                                    *)
(***************************************************************************)
MsgNone == "(nothing shown)"
MsgSaved == "success: Configuration saved successfully!"
MsgNameExists == "error: Configuration with this name already exists."
MsgSaveError == "error: Error saving configuration"
MsgListError == "error: Error retrieving configurations"
MsgDeleted == "success: Configuration deleted successfully!"
MsgNotFound == "warning: Configuration not found."
MsgDeleteError == "error: Error deleting configuration"
MsgUpdated == "success: Configuration updated successfully!"
MsgUpdateError == "error: Error updating configuration"
MsgIdNotFound == "warning: Configuration with ID not found"
MsgGetError == "error: Error retrieving configuration"

\* Return values: no value (a procedure), None, one row, a list of rows.
RetNothing == [kind |-> "nothing", rows |-> {}]
RetNone == [kind |-> "None", rows |-> {}]
RetConfig(r) == [kind |-> "config", rows |-> {r}]
RetList(rs) == [kind |-> "list", rows |-> rs]

\* The empty dict.
EmptyDict == [k \in {} |-> None]

Outcome(op, name, id, config, fault, msg, ret, raised) ==
    [op |-> op, name |-> name, id |-> id, config |-> config, fault |-> fault,
     msg |-> msg, ret |-> ret, raised |-> raised]

(***************************************************************************)
(* Inputs.                                                                 *)
(***************************************************************************)
\* A complete profile whose values carry the tag v.
Profile(name, v) ==
    [name |-> name,
     endpoint |-> "endpoint-" \o v,
     port |-> "port-" \o v,
     access_key |-> "access-" \o v,
     secret_key |-> "secret-" \o v,
     region |-> "region-" \o v,
     bucket_name |-> "bucket-" \o v]

\* The dict without one of its keys.
Without(d, key) == [k \in DOMAIN d \ {key} |-> d[k]]

\* The dicts handed to save_config for a name: two complete profiles, one
\* with the optional columns None, two with a required column None, one
\* that lacks a key.
SaveInputs(name) ==
    { Profile(name, "A"),
      Profile(name, "B"),
      [Profile(name, "B") EXCEPT !["port"] = None, !["region"] = None],
      [Profile(name, "A") EXCEPT !["endpoint"] = None],
      [Profile(name, "A") EXCEPT !["bucket_name"] = None],
      Without(Profile(name, "A"), "region") }

\* The dicts handed to update_config.
UpdateInputs ==
    { EmptyDict,
      [region |-> "region-X"],
      [bucket_name |-> "bucket-X"],
      [endpoint |-> "endpoint-X", port |-> "port-X", access_key |-> "access-X",
       secret_key |-> "secret-X", region |-> "region-X",
       bucket_name |-> "bucket-X"],
      [endpoint |-> None],
      [name |-> "renamed", id |-> "99"] }

(***************************************************************************)
(* ObjectStorageRepository.                                                *)
(***************************************************************************)
\* The path on which an operation ends.
ExitPath(outcome) ==
    IF outcome.raised # "" THEN "raised"
    ELSE IF outcome.msg = MsgNameExists THEN "duplicate_name"
    ELSE IF outcome.msg \in {MsgSaveError, MsgListError, MsgDeleteError,
                             MsgUpdateError, MsgGetError} THEN "db_error"
    ELSE IF outcome.msg \in {MsgNotFound, MsgIdNotFound} THEN "not_found"
    ELSE "success"

\* No operation has run: no session is open.
NoSession == [open |-> 0, acquired |-> 0, released |-> 0, exit |-> ""]

\* session = self.Session()
Acquire(open) == open + 1

\* Release with session.close() as the last statement of the try block.
ReleaseUnlessRaised(open, exit) == IF exit = "raised" THEN open ELSE open - 1

\* finally: session.close()
Release(open, exit) == open - 1

\* The sessions after an operation that ended with the given outcome: one
\* acquired before the try block, then the finally clause.
Scoped(s, outcome) ==
    LET acquired == Acquire(s.open)
        left == Release(acquired, ExitPath(outcome))
    IN [open |-> left, acquired |-> acquired - s.open,
        released |-> acquired - left, exit |-> ExitPath(outcome)]

\* save_config(config).  fault: the database raises a DatabaseError that is
\* not an IntegrityError (an OperationalError) at the commit.
save_config(config, fault) ==
    /\ prev' = table
    /\ IF \E i \in 1..Len(ConfigKeys) : ConfigKeys[i] \notin DOMAIN config
       THEN \* config[...] raises KeyError; no except clause takes it
            /\ table' = table
            /\ last' = Outcome("save", None, 0, config, fault, MsgNone,
                               RetNothing, "KeyError")
       ELSE IF fault
       THEN \* except DatabaseError
            /\ table' = table
            /\ last' = Outcome("save", config["name"], 0, config, fault,
                               MsgSaveError, RetNothing, "")
       ELSE IF NullViolation(NewConfig(config, 0))
                 \/ NameTaken(table, config["name"])
       THEN \* except IntegrityError
            /\ table' = table
            /\ last' = Outcome("save", config["name"], 0, config, fault,
                               MsgNameExists, RetNothing, "")
       ELSE \E id \in FreeIds(table) :
            /\ table' = table \cup {NewConfig(config, id)}
            /\ last' = Outcome("save", config["name"], id, config, fault,
                               MsgSaved, RetNothing, "")
    /\ sess' = Scoped(sess, last')
    /\ UNCHANGED listVars
    /\ UNCHANGED uiVars

\* An exception of the driver that is no DatabaseError: no except clause of
\* the repository names it.
Uncaught == "InterfaceError"

\* list_configs().  other: the exception that the database raises is not a
\* DatabaseError.
list_configs(fault, other) ==
    /\ prev' = table
    /\ table' = table
    /\ last' = IF other
               THEN Outcome("list", None, 0, EmptyDict, TRUE, MsgNone,
                            RetNothing, Uncaught)
               ELSE IF fault
               THEN Outcome("list", None, 0, EmptyDict, fault, MsgListError,
                            RetList({}), "")
               ELSE Outcome("list", None, 0, EmptyDict, fault, MsgNone,
                            RetList(table), "")
    /\ sess' = Scoped(sess, last')
    /\ UNCHANGED listVars
    /\ UNCHANGED uiVars

\* delete_config(config_name)
delete_config(config_name, fault, other) ==
    /\ prev' = table
    /\ IF other
       THEN /\ table' = table
            /\ last' = Outcome("delete", config_name, 0, EmptyDict, TRUE,
                               MsgNone, RetNothing, Uncaught)
       ELSE IF fault
       THEN /\ table' = table
            /\ last' = Outcome("delete", config_name, 0, EmptyDict, fault,
                               MsgDeleteError, RetNothing, "")
       ELSE IF ByName(table, config_name) # {}
       THEN \E config_to_delete \in ByName(table, config_name) :
            /\ table' = table \ {config_to_delete}
            /\ last' = Outcome("delete", config_name, config_to_delete.id,
                               EmptyDict, fault, MsgDeleted, RetNothing, "")
       ELSE /\ table' = table
            /\ last' = Outcome("delete", config_name, 0, EmptyDict, fault,
                               MsgNotFound, RetNothing, "")
    /\ sess' = Scoped(sess, last')
    /\ UNCHANGED listVars
    /\ UNCHANGED uiVars

\* updated_config.get(key, default)
Get(d, key, default) == IF key \in DOMAIN d THEN d[key] ELSE default

\* The assignments of update_config to the row it found.
\* ApplyUpdate with updated_config.get('port'), without the default.
ApplyUpdateNoDefault(existing_config, updated_config) ==
    [existing_config EXCEPT
        !.endpoint = Get(updated_config, "endpoint", @),
        !.port = Get(updated_config, "port", None),
        !.access_key = Get(updated_config, "access_key", @),
        !.secret_key = Get(updated_config, "secret_key", @),
        !.region = Get(updated_config, "region", @)]

ApplyUpdate(existing_config, updated_config) ==
    [existing_config EXCEPT
        !.endpoint = Get(updated_config, "endpoint", @),
        !.port = Get(updated_config, "port", @),
        !.access_key = Get(updated_config, "access_key", @),
        !.secret_key = Get(updated_config, "secret_key", @),
        !.region = Get(updated_config, "region", @)]

\* update_config(config_name, updated_config)
update_config(config_name, updated_config, fault, other) ==
    /\ prev' = table
    /\ IF other
       THEN /\ table' = table
            /\ last' = Outcome("update", config_name, 0, updated_config,
                               TRUE, MsgNone, RetNothing, Uncaught)
       ELSE IF fault
       THEN /\ table' = table
            /\ last' = Outcome("update", config_name, 0, updated_config,
                               fault, MsgUpdateError, RetNothing, "")
       ELSE IF ByName(table, config_name) # {}
       THEN \E existing_config \in ByName(table, config_name) :
            LET updated == ApplyUpdate(existing_config, updated_config) IN
            IF NullViolation(updated)
            THEN \* the commit raises IntegrityError, a DatabaseError
                 /\ table' = table
                 /\ last' = Outcome("update", config_name, existing_config.id,
                                    updated_config, fault, MsgUpdateError,
                                    RetNothing, "")
            ELSE /\ table' = (table \ {existing_config}) \cup {updated}
                 /\ last' = Outcome("update", config_name, existing_config.id,
                                    updated_config, fault, MsgUpdated,
                                    RetNothing, "")
       ELSE /\ table' = table
            /\ last' = Outcome("update", config_name, 0, updated_config,
                               fault, MsgNotFound, RetNothing, "")
    /\ sess' = Scoped(sess, last')
    /\ UNCHANGED listVars
    /\ UNCHANGED uiVars

\* get_config_by_id(config_id)
get_config_by_id(config_id, fault, other) ==
    /\ prev' = table
    /\ table' = table
    /\ last' = IF other
               THEN Outcome("get", None, config_id, EmptyDict, TRUE, MsgNone,
                            RetNothing, Uncaught)
               ELSE IF fault
               THEN Outcome("get", None, config_id, EmptyDict, fault,
                            MsgGetError, RetNone, "")
               ELSE IF ById(table, config_id) # {}
               THEN Outcome("get", None, config_id, EmptyDict, fault, MsgNone,
                            RetConfig(CHOOSE r \in ById(table, config_id) : TRUE),
                            "")
               ELSE Outcome("get", None, config_id, EmptyDict, fault,
                            MsgIdNotFound, RetNone, "")
    /\ sess' = Scoped(sess, last')
    /\ UNCHANGED listVars
    /\ UNCHANGED uiVars

(***************************************************************************)
(* Strings as sequences of characters.                                     *)
(***************************************************************************)
\* str.startswith
StartsWith(s, p) == Len(p) <= Len(s) /\ SubSeq(s, 1, Len(p)) = p

\* str.endswith, for a one-character suffix
EndsWith(s, c) == Len(s) > 0 /\ s[Len(s)] = c

\* The characters of a string.
CharsOf(s) == { s[i] : i \in 1..Len(s) }

\* str.rstrip(chars): drops every trailing character that is in chars.
RECURSIVE RStrip(_, _)
RStrip(s, chars) ==
    IF Len(s) > 0 /\ s[Len(s)] \in chars
    THEN RStrip(SubSeq(s, 1, Len(s) - 1), chars)
    ELSE s

\* The code point of a character (the order in which the service lists keys).
Code(c) ==
    CASE c = "." -> 46
      [] c = "/" -> 47
      [] c = "a" -> 97
      [] c = "f" -> 102
      [] c = "t" -> 116
      [] c = "x" -> 120

\* s sorts strictly before t, byte by byte.
RECURSIVE LexLess(_, _)
LexLess(s, t) ==
    IF Len(t) = 0 THEN FALSE
    ELSE IF Len(s) = 0 THEN TRUE
    ELSE IF s[1] # t[1] THEN Code(s[1]) < Code(t[1])
    ELSE LexLess(Tail(s), Tail(t))

\* The strings of a set, in ascending order.
RECURSIVE SortKeys(_)
SortKeys(S) ==
    IF S = {} THEN <<>>
    ELSE LET m == CHOOSE k \in S : \A o \in S : o = k \/ LexLess(k, o)
         IN <<m>> \o SortKeys(S \ {m})

(***************************************************************************)
(* Sizes.  TLC's integers have 32 bits and a size may exceed them: a size  *)
(* is held as its base-1024 digits, least significant first, without       *)
(* leading zeros (0 is the empty sequence).                                *)
(***************************************************************************)
Kilo == 1024

\* The integer a digit sequence stands for (where it fits).
RECURSIVE LimbsToInt(_)
LimbsToInt(l) == IF Len(l) = 0 THEN 0 ELSE l[1] + Kilo * LimbsToInt(Tail(l))

\* The float that human_readable_size holds: a base-1024 fixed-point number.
\* whole: the digits of the integer part, least significant first; frac: the
\* digits after the point, most significant first.  Division by 1024.0 is
\* exact for sizes below 2^53 and moves the point by one digit.
FloatOf(size) == [whole |-> size, frac |-> <<>>]

\* BelowKilo with <= for <.
BelowKiloInclusive(x) ==
    \/ Len(x.whole) <= 1
    \/ x.whole = <<0, 1>> /\ \A i \in 1..Len(x.frac) : x.frac[i] = 0

\* size_in_bytes < 1024.0
BelowKilo(x) == Len(x.whole) <= 1

\* size_in_bytes /= 1024.0
DivKilo(x) ==
    IF Len(x.whole) = 0
    THEN [whole |-> <<>>, frac |-> IF x.frac = <<>> THEN <<>> ELSE <<0>> \o x.frac]
    ELSE [whole |-> Tail(x.whole), frac |-> <<x.whole[1]>> \o x.frac]

\* 10 * 0.frac, by long multiplication from the last digit: the carry out
\* (the first decimal) and the digits that remain after the point.
RECURSIVE TimesTen(_)
TimesTen(frac) ==
    IF Len(frac) = 0 THEN [carry |-> 0, rest |-> <<>>]
    ELSE LET lower == TimesTen(Tail(frac))
             t == 10 * frac[1] + lower.carry
         IN [carry |-> t \div Kilo, rest |-> <<t % Kilo>> \o lower.rest]

\* How a remainder compares with one half: -1 below, 0 equal, 1 above.
HalfCompare(rest) ==
    IF Len(rest) = 0 THEN -1
    ELSE IF rest[1] > Kilo \div 2 THEN 1
    ELSE IF rest[1] < Kilo \div 2 THEN -1
    ELSE IF \E i \in 2..Len(rest) : rest[i] # 0 THEN 1
    ELSE 0

\* f"{x:.1f}": x in tenths, rounded half to even.
Tenths(x) ==
    LET m == TimesTen(x.frac)
        down == 10 * LimbsToInt(x.whole) + m.carry
        cmp == HalfCompare(m.rest)
    IN IF cmp > 0 \/ (cmp = 0 /\ down % 2 = 1) THEN down + 1 ELSE down

Format1f(x) ==
    LET t == Tenths(x) IN ToString(t \div 10) \o "." \o ToString(t % 10)

\* The units that the loop of human_readable_size tries, in order.
Units == <<"B", "KB", "MB", "GB">>

\* The loop of human_readable_size from its i-th unit on.
RECURSIVE HumanLoop(_, _)
HumanLoop(x, i) ==
    IF i > Len(Units) THEN Format1f(x) \o " TB"
    ELSE IF BelowKilo(x) THEN Format1f(x) \o " " \o Units[i]
    ELSE HumanLoop(DivKilo(x), i + 1)

\* human_readable_size(size_in_bytes)
human_readable_size(size_in_bytes) == HumanLoop(FloatOf(size_in_bytes), 1)

(***************************************************************************)
(* The remote service: list_objects_v2 with Delimiter '/'.                 *)
(***************************************************************************)
Delimiter == "/"

\* The part of a key after the prefix.
AfterPrefix(key, p) == SubSeq(key, Len(p) + 1, Len(key))

\* The position of the first delimiter of s (0: none).
FirstDelimiter(s) ==
    IF \E i \in 1..Len(s) : s[i] = Delimiter
    THEN CHOOSE i \in 1..Len(s) :
            s[i] = Delimiter /\ \A j \in 1..(i - 1) : s[j] # Delimiter
    ELSE 0

\* The keys under the prefix that hold a delimiter after it are rolled up
\* into their common prefix: the key up to and including that delimiter.
CommonPrefixes(bkt, p) ==
    { SubSeq(o.Key, 1, Len(p) + FirstDelimiter(AfterPrefix(o.Key, p))) :
        o \in { b \in bkt : /\ StartsWith(b.Key, p)
                            /\ FirstDelimiter(AfterPrefix(b.Key, p)) > 0 } }

\* The objects under the prefix whose key holds no delimiter after it.
Contents(bkt, p) ==
    { o \in bkt : /\ StartsWith(o.Key, p)
                  /\ FirstDelimiter(AfterPrefix(o.Key, p)) = 0 }

\* The object of a bucket with a given key.
ObjectAt(bkt, key) == CHOOSE o \in bkt : o.Key = key

\* The response of the service: both groups in key order.
list_objects_v2(bkt, p) ==
    LET keys == SortKeys({ o.Key : o \in Contents(bkt, p) })
    IN [Contents |-> [i \in 1..Len(keys) |-> ObjectAt(bkt, keys[i])],
        CommonPrefixes |->
            LET cps == SortKeys(CommonPrefixes(bkt, p))
            IN [i \in 1..Len(cps) |-> [Prefix |-> cps[i]]]]

(***************************************************************************)
(* ObjectStorageUtil.                                                      *)
(***************************************************************************)
FolderIcon == "<folder>"
FileIcon == "<file>"

\* format_object_key(key)
format_object_key(key) ==
    <<IF EndsWith(key, "/") THEN FolderIcon ELSE FileIcon, " ">> \o key

\* remove_prefix without the rstrip('/') of its second return.
remove_prefix_keeping_slash(key, p) ==
    IF key = p
    THEN RStrip(format_object_key(p), CharsOf(p))
    ELSE IF StartsWith(key, p)
    THEN format_object_key(SubSeq(key, Len(p) + 1, Len(key)))
    ELSE IF EndsWith(key, "/")
    THEN RStrip(format_object_key(key), {"/"})
    ELSE key

\* remove_prefix(key, prefix)
remove_prefix(key, p) ==
    IF key = p
    THEN RStrip(format_object_key(p), CharsOf(p))
    ELSE IF StartsWith(key, p)
    THEN RStrip(format_object_key(AfterPrefix(key, p)), {"/"})
    ELSE IF EndsWith(key, "/")
    THEN RStrip(format_object_key(key), {"/"})
    ELSE key

\* The folders that list_objects builds from the common prefixes.
Folders(response) ==
    [i \in 1..Len(response.CommonPrefixes) |->
        [Key |-> response.CommonPrefixes[i].Prefix, Size |-> <<>>,
         LastModified |-> ""]]

\* The faults of the remote call: none, a botocore ClientError (the service
\* answered with an error), or another botocore exception (the endpoint
\* could not be reached).
S3Faults == {"none", "ClientError", "EndpointConnectionError"}

\* list_objects(bucket_name, prefix)
list_objects(bkt, p, fault) ==
    IF fault = "none"
    THEN LET response == list_objects_v2(bkt, p)
         IN [called |-> TRUE, fault |-> fault, raised |-> "", logged |-> FALSE,
             response |-> response,
             ret |-> Folders(response) \o response.Contents]
    ELSE IF fault = "ClientError"
    THEN \* except ClientError
         [called |-> TRUE, fault |-> fault, raised |-> "", logged |-> TRUE,
          response |-> [Contents |-> <<>>, CommonPrefixes |-> <<>>],
          ret |-> <<>>]
    ELSE [called |-> TRUE, fault |-> fault, raised |-> fault, logged |-> FALSE,
          response |-> [Contents |-> <<>>, CommonPrefixes |-> <<>>],
          ret |-> <<>>]

\* The row of transform_object_list for one object.
Row(obj, p) ==
    <<remove_prefix(obj.Key, p), human_readable_size(obj.Size),
      obj.LastModified, "Download Delete">>

\* Skipped without the test.
SkippedNever(obj, p) == FALSE

\* if obj['Key'] == prefix: continue
Skipped(obj, p) == obj.Key = p

\* transform_object_list(objects, prefix)
RECURSIVE transform_object_list(_, _)
transform_object_list(objects, p) ==
    IF Len(objects) = 0 THEN <<>>
    ELSE IF Skipped(Head(objects), p)
    THEN transform_object_list(Tail(objects), p)
    ELSE <<Row(Head(objects), p)>> \o transform_object_list(Tail(objects), p)

\* No list_objects call has been made.
NotCalled ==
    [called |-> FALSE, fault |-> "none", raised |-> "", logged |-> FALSE,
     response |-> [Contents |-> <<>>, CommonPrefixes |-> <<>>], ret |-> <<>>]

\* No transform_object_list call has been made on the last listing.
NoRows == [called |-> FALSE, ret |-> <<>>]

\* objects = self.object_storage_util.list_objects(bucket, prefix)
ListObjects ==
    \E fault \in S3Faults :
        /\ s3' = list_objects(bucket, prefix, fault)
        /\ rows' = NoRows
        /\ UNCHANGED <<bucket, prefix>>
        /\ UNCHANGED repoVars
        /\ UNCHANGED <<sess, request, nav>>

\* transformed = self.object_storage_util.transform_object_list(objects, prefix)
TransformObjectList ==
    /\ s3.called
    /\ s3.raised = ""
    /\ rows' = [called |-> TRUE, ret |-> transform_object_list(s3.ret, prefix)]
    /\ UNCHANGED <<bucket, prefix, s3>>
    /\ UNCHANGED repoVars
    /\ UNCHANGED <<sess, request, nav>>

(***************************************************************************)
(* The buckets and prefixes of a listing.                                  *)
(***************************************************************************)
\* Keys are of at most MaxKeyLen characters, prefixes of at most
\* MaxPrefixLen, and a bucket holds at most MaxObjects objects.
MaxKeyLen == 3
MaxPrefixLen == 2
MaxObjects == 2

Alphabet == {"a", "/"}

\* The strings over the alphabet of 1..n characters.
Strings(n) == UNION { [1..k -> Alphabet] : k \in 1..n }

\* "a/f.txt"
KeyAFTxt == <<"a", "/", "f", ".", "t", "x", "t">>

AllKeys == Strings(MaxKeyLen) \cup {KeyAFTxt}
AllPrefixes == {<<>>} \cup Strings(MaxPrefixLen)

\* 2048 bytes
Size2K == <<0, 2>>

\* The object stored under a key: its size and time follow from the key.
ObjectOf(key) ==
    IF EndsWith(key, "/")
    THEN [Key |-> key, Size |-> <<>>, LastModified |-> "T0"]
    ELSE [Key |-> key, Size |-> Size2K,
          LastModified |-> "T" \o ToString(Len(key))]

\* The sets of at most n elements of S.
RECURSIVE UpTo(_, _)
UpTo(S, n) ==
    IF n = 0 THEN {{}}
    ELSE LET smaller == UpTo(S, n - 1)
         IN smaller \cup { s \cup {x} : s \in smaller, x \in S }

Buckets == { { ObjectOf(k) : k \in ks } : ks \in UpTo(AllKeys, MaxObjects) }

\* Sizes are of at most MaxLimbs base-1024 digits, each drawn from
\* LimbValues, and lie below 2^53 = 8 * 1024^5 (where the float is exact).
MaxLimbs == 6
LimbValues == {0, 1, 256, 512, 1023}

Sizes ==
    { l \in UNION { [1..k -> LimbValues] : k \in 0..MaxLimbs } :
        /\ Len(l) > 0 => l[Len(l)] # 0
        /\ Len(l) <= 6
        /\ Len(l) = 6 => l[6] < 8 }

\* "a/a" and "a/"
KeyAA == <<"a", "/", "a">>
PrefixA == <<"a", "/">>

(***************************************************************************)
(* ObjectStorageApp: the detail view.                                      *)
(***************************************************************************)
\* The detail view has sent no request.
NoRequest ==
    [sent |-> FALSE, selected |-> None, Bucket |-> None,
     aws_access_key_id |-> None, aws_secret_access_key |-> None,
     endpoint_url |-> None, raised |-> ""]

\* st.secrets[key]: a value of the deployment, not of any profile.
Secrets(key) == "st.secrets:" \o key

\* The bucket that show_object_storage_detail lists.
DetailBucket == "demo-bucket"

\* show_object_storage_detail(config): the client was built in __init__
\* from st.secrets; the view lists the objects of a fixed bucket and calls
\* transform_object_list without its prefix argument (a TypeError).
show_object_storage_detail(config) ==
    /\ request' = [sent |-> TRUE, selected |-> config.name,
                   Bucket |-> DetailBucket,
                   aws_access_key_id |-> Secrets("aws_access_key_id"),
                   aws_secret_access_key |-> Secrets("aws_secret_access_key"),
                   endpoint_url |-> Secrets("endpoint_url"),
                   raised |-> "TypeError"]
    /\ UNCHANGED <<nav, sess>>
    /\ UNCHANGED repoVars
    /\ UNCHANGED listVars

\* The Details button of a listed profile, then the detail page.
ShowObjectStorageDetail ==
    \E config \in table : show_object_storage_detail(config)

(***************************************************************************)
(* The navigation of the listing: the current prefix, moved by selecting   *)
(* a folder row.                                                           *)
(***************************************************************************)
\* No folder has been selected.
NoSelection == [row |-> 0, from |-> <<>>]

\* The row shows a folder: its display name starts with the folder marker.
IsFolderRow(row) == Len(row[1]) > 0 /\ row[1][1] = FolderIcon

\* The stripped name of a display name: what follows the marker and its
\* space.
WithoutMarker(displayName) == SubSeq(displayName, 3, Len(displayName))

\* The prefix that selecting the row leads to.
NextPrefix(p, row) == p \o WithoutMarker(row[1]) \o <<Delimiter>>

\* listEntries under a prefix: list_objects, then transform_object_list
\* unless the call raised.
ListEntries(listing, p) ==
    IF listing.raised = ""
    THEN [called |-> TRUE, ret |-> transform_object_list(listing.ret, p)]
    ELSE NoRows

\* Selecting the folder row i of the rows shown: the current prefix moves,
\* and the entries are listed again under it.
SelectFolder ==
    /\ rows.called
    /\ \E i \in 1..Len(rows.ret), fault \in S3Faults :
        /\ IsFolderRow(rows.ret[i])
        /\ prefix' = NextPrefix(prefix, rows.ret[i])
        /\ s3' = list_objects(bucket, prefix', fault)
        /\ rows' = ListEntries(s3', prefix')
        /\ nav' = [row |-> i, from |-> prefix]
    /\ UNCHANGED <<bucket, sess, request>>
    /\ UNCHANGED repoVars

SaveConfig == \E n \in Names, f \in BOOLEAN : \E c \in SaveInputs(n) : save_config(c, f)
\* What the database does to an operation <<fault, other>>: nothing, a
\* DatabaseError, or an exception that is not a DatabaseError.
Faults == {<<FALSE, FALSE>>, <<TRUE, FALSE>>, <<TRUE, TRUE>>}

ListConfigs == \E f \in Faults : list_configs(f[1], f[2])
DeleteConfig == \E n \in Names, f \in Faults : delete_config(n, f[1], f[2])
UpdateConfig == \E n \in Names, f \in Faults : \E u \in UpdateInputs : update_config(n, u, f[1], f[2])
GetConfigById == \E i \in Ids, f \in Faults : get_config_by_id(i, f[1], f[2])

(***************************************************************************)
(* Specifications.                                                         *)
(***************************************************************************)
\* Base.metadata.create_all on a new database: the table is empty.
InitRepo ==
    /\ table = {}
    /\ prev = {}
    /\ last = Outcome("init", None, 0, EmptyDict, FALSE, MsgNone, RetNothing, "")
    /\ sess = NoSession

InitListing ==
    /\ s3 = NotCalled
    /\ rows = NoRows
    /\ request = NoRequest
    /\ nav = NoSelection

\* The repository, with no listing under way.
Init ==
    /\ InitRepo
    /\ InitListing
    /\ bucket = {}
    /\ prefix = <<>>

Next ==
    \/ SaveConfig
    \/ ListConfigs
    \/ DeleteConfig
    \/ UpdateConfig
    \/ GetConfigById

Spec == Init /\ [][Next]_vars

\* The listing of any bucket under any prefix.
InitList ==
    /\ InitRepo
    /\ InitListing
    /\ bucket \in Buckets
    /\ prefix \in AllPrefixes

NextList ==
    \/ ListObjects
    \/ TransformObjectList

SpecList == InitList /\ [][NextList]_vars

\* The navigation of any bucket, from its root.
InitNav ==
    /\ InitRepo
    /\ InitListing
    /\ bucket \in Buckets
    /\ prefix = <<>>

NextNav ==
    \/ ListObjects
    \/ TransformObjectList
    \/ SelectFolder

SpecNav == InitNav /\ [][NextNav]_vars

\* The repository and the detail view of its profiles.
NextDetail ==
    \/ Next
    \/ ShowObjectStorageDetail

SpecDetail == Init /\ [][NextDetail]_vars

\* The listing of one object of any size, seen from the root (as a folder)
\* and from its folder (as a file).
InitSize ==
    /\ InitRepo
    /\ InitListing
    /\ \E size \in Sizes :
         bucket = {[Key |-> KeyAA, Size |-> size, LastModified |-> "T1"]}
    /\ prefix \in {<<>>, PrefixA}

SpecSize == InitSize /\ [][NextList]_vars

(***************************************************************************)
(* Claims about the repository.                                            *)
(***************************************************************************)
\* The columns of a row.
Columns ==
    {"id", "name", "endpoint", "port", "access_key", "secret_key", "region",
     "bucket_name"}

\* A profile of that name is stored.
HasName(tbl, name) == \E r \in tbl : r.name = name

\* The stored profiles of that name.
RowsNamed(tbl, name) == { r \in tbl : r.name = name }

\* A required field of the dict is None.
HasNullRequired(config) ==
    \E c \in NotNullColumns : c \in DOMAIN config /\ config[c] = None

\* The dict holds every key of a profile, and a non-empty value for each
\* required one.
ValidProfile(config) ==
    /\ \A i \in 1..Len(ConfigKeys) : ConfigKeys[i] \in DOMAIN config
    /\ \A c \in NotNullColumns : config[c] # None /\ config[c] # ""

\* C1: for a profile with every required field non-empty and a name not yet
\* in the store, save_config followed by list_configs returns exactly one
\* profile of that name, with the name, endpoint, port, access_key,
\* secret_key, region and bucket_name submitted; the profiles that were in
\* the store before are returned unchanged.  (Neither call meets a failing
\* database.)
C1_SaveThenList ==
    [][ ( /\ last.op = "save"
          /\ ~last.fault
          /\ ValidProfile(last.config)
          /\ ~HasName(prev, last.config["name"])
          /\ last'.op = "list"
          /\ ~last'.fault )
        =>
        ( /\ last'.ret.kind = "list"
          /\ Cardinality({ r \in last'.ret.rows : r.name = last.config["name"] }) = 1
          /\ \A r \in last'.ret.rows :
                r.name = last.config["name"] =>
                    \A i \in 1..Len(ConfigKeys) :
                        r[ConfigKeys[i]] = last.config[ConfigKeys[i]]
          /\ prev \subseteq last'.ret.rows ) ]_vars

\* A valid profile with a new name has been saved beside another one, and
\* list_configs is the next call.
C1_Witness ==
    /\ last.op = "save"
    /\ ~last.fault
    /\ ValidProfile(last.config)
    /\ ~HasName(prev, last.config["name"])
    /\ prev # {}
    /\ last.msg = MsgSaved
    /\ ENABLED ListConfigs

\* C2: no two stored profiles have the same name; a save_config whose name
\* exists already reports the duplicate-name error and leaves the store with
\* exactly one profile of that name, holding the fields of the first save.
C2_UniqueName ==
    /\ \A r1, r2 \in table : r1.name = r2.name => r1 = r2
    /\ ( /\ last.op = "save"
         /\ ~last.fault
         /\ last.raised = ""
         /\ HasName(prev, last.name) )
       => ( /\ last.msg = MsgNameExists
            /\ Cardinality(RowsNamed(table, last.name)) = 1
            /\ RowsNamed(table, last.name) = RowsNamed(prev, last.name) )

\* A second save under a stored name, with other fields than the first.
C2_Witness ==
    /\ last.op = "save"
    /\ ~last.fault
    /\ ValidProfile(last.config)
    /\ last.msg = MsgNameExists
    /\ \E r \in prev : r.name = last.name /\ r.endpoint # last.config["endpoint"]
    /\ Cardinality(table) = 2

\* The operation met an exception of the database that is no DatabaseError.
DriverFailed(outcome) == outcome.fault /\ outcome.raised = Uncaught

\* C3: delete_config on a stored name removes that profile and no other,
\* and a get_config_by_id for its id issued next returns None without
\* raising; delete_config on a name that no profile has reports not-found
\* and leaves the stored profiles as they were.  (The database raises
\* nothing in the delete, and nothing but a DatabaseError in the get.)
C3_Delete ==
    /\ []( (last.op = "delete" /\ ~last.fault) =>
             IF HasName(prev, last.name)
             THEN /\ last.msg = MsgDeleted
                  /\ Cardinality(prev \ table) = 1
                  /\ table = { r \in prev : r.name # last.name }
                  /\ \A r \in prev \ table : r.id = last.id
                  /\ last.raised = ""
             ELSE /\ last.msg = MsgNotFound
                  /\ table = prev
                  /\ last.raised = "" )
    /\ [][ ( /\ last.op = "delete"
             /\ last.msg = MsgDeleted
             /\ last'.op = "get"
             /\ last'.id = last.id
             /\ ~DriverFailed(last') )
           => ( last'.ret = RetNone /\ last'.raised = "" ) ]_vars

\* One of two stored profiles has been deleted.
C3_Witness ==
    /\ last.op = "delete"
    /\ last.msg = MsgDeleted
    /\ Cardinality(prev) = 2
    /\ Cardinality(table) = 1
    /\ ENABLED GetConfigById

\* C4: update_config leaves unchanged every field of the matched profile
\* whose key is absent from the dict (id, name and bucket_name among them),
\* leaves every other profile unchanged, and leaves the whole store
\* unchanged, with a not-found warning and no exception, when the name
\* matches no profile.
C4_UpdateFrame ==
    last.op = "update" =>
        /\ ~last.fault => last.raised = ""
        /\ IF HasName(prev, last.name)
           THEN /\ \A r \in prev : r.name # last.name => r \in table
                /\ \A r \in table : r.name # last.name => r \in prev
                /\ \A old \in RowsNamed(prev, last.name) :
                     \E new \in table :
                        /\ table = (prev \ {old}) \cup {new}
                        /\ \A c \in Columns \ DOMAIN last.config : new[c] = old[c]
           ELSE /\ table = prev
                /\ ~last.fault => last.msg = MsgNotFound

\* An update of the region alone, of one of two stored profiles.
C4_Witness ==
    /\ last.op = "update"
    /\ last.msg = MsgUpdated
    /\ DOMAIN last.config = {"region"}
    /\ Cardinality(prev) = 2
    /\ table # prev

\* C5: update_config on a stored profile applies every attribute that the
\* dict supplies: each of endpoint, port, access_key, secret_key, region and
\* bucket_name that it holds is the stored value afterwards.
C5_UpdateAppliesAll ==
    (last.op = "update" /\ last.msg = MsgUpdated) =>
        \A r \in RowsNamed(table, last.name) :
            \A c \in {"endpoint", "port", "access_key", "secret_key", "region",
                      "bucket_name"} \cap DOMAIN last.config :
                r[c] = last.config[c]

\* C6: save_config reports the duplicate-name error exactly when a profile
\* of that name is stored; any other storage fault of the save (a required
\* column that is null) is reported as the generic error, never as a
\* duplicate name; the store is unchanged in both cases.
C6_DuplicateNameOnlyForDuplicates ==
    (last.op = "save" /\ ~last.fault /\ last.raised = "") =>
        /\ last.msg = MsgNameExists <=> HasName(prev, last.name)
        /\ (~HasName(prev, last.name) /\ HasNullRequired(last.config))
              => last.msg = MsgSaveError
        /\ last.msg \in {MsgNameExists, MsgSaveError} => table = prev

\* The paths on which an operation of the store can end.
ExitPaths == {"success", "not_found", "duplicate_name", "db_error", "raised"}

\* C12: every operation of the store (save_config, list_configs,
\* delete_config, update_config, get_config_by_id) acquires one session and
\* has released it when it ends, on every exit path (success, not found,
\* duplicate name, other database error, uncaught exception); after any
\* sequence of operations no session remains open.
C12_SessionScoped ==
    /\ sess.open = 0
    /\ last.op # "init" =>
        /\ sess.acquired = 1
        /\ sess.released = 1
        /\ sess.exit \in ExitPaths

\* save_config has ended with an exception it does not catch, after
\* operations that ended on other paths, and no session is open.
C12_Witness ==
    /\ last.op = "save"
    /\ last.raised = "KeyError"
    /\ sess.exit = "raised"
    /\ sess.released = 1
    /\ sess.open = 0
    /\ table # {}

\* The stored profile that the detail view shows.
SelectedProfiles == { r \in table : r.name = request.selected }

\* C11: whenever the detail view of a selected profile lists objects, the
\* remote request is scoped to that profile's bucket_name and made with
\* that profile's access_key, secret_key and endpoint, for every profile
\* of the store.
C11_RequestUsesSelectedProfile ==
    request.sent =>
        \A r \in SelectedProfiles :
            /\ request.Bucket = r.bucket_name
            /\ request.aws_access_key_id = r.access_key
            /\ request.aws_secret_access_key = r.secret_key
            /\ request.endpoint_url = r.endpoint

(***************************************************************************)
(* Claims about the listing.                                               *)
(***************************************************************************)
\* The entries that a response stands for: its common prefixes, as folders,
\* then its contents, as files, the content whose key is the queried prefix
\* left out.
KeptContents(response, p) ==
    SelectSeq(response.Contents, LAMBDA o : o.Key # p)

Entries(response, p) ==
    [i \in 1..Len(response.CommonPrefixes) |->
        [Key |-> response.CommonPrefixes[i].Prefix, kind |-> "folder",
         LastModified |-> ""]]
    \o [i \in 1..Len(KeptContents(response, p)) |->
        [Key |-> KeptContents(response, p)[i].Key, kind |-> "file",
         LastModified |-> KeptContents(response, p)[i].LastModified]]

\* C7: whatever the fault of the remote list-objects call, list_objects
\* returns an empty list and raises no exception.
C7_FaultGivesEmptyListing ==
    (s3.called /\ s3.fault # "none") => (s3.ret = <<>> /\ s3.raised = "")

\* C8: the rows of list_objects followed by transform_object_list are, one
\* for one and in order, the common prefixes of the response (as folders)
\* and its contents (as files) without the content whose key is the queried
\* prefix: none dropped, none doubled, none added.
C8_RowsAreTheEntries ==
    rows.called =>
        LET entries == Entries(s3.response, prefix)
        IN /\ Len(rows.ret) = Len(entries)
           /\ \A i \in 1..Len(entries) :
                /\ rows.ret[i][1] = remove_prefix(entries[i].Key, prefix)
                /\ rows.ret[i][3] = entries[i].LastModified
                /\ rows.ret[i][1][1] =
                     (IF entries[i].kind = "folder" THEN FolderIcon ELSE FileIcon)

\* A listing whose response holds the queried prefix itself among its
\* contents, beside a folder and a file.
C8_Witness ==
    /\ rows.called
    /\ s3.fault = "none"
    /\ Len(prefix) > 0
    /\ \E i \in 1..Len(s3.response.Contents) : s3.response.Contents[i].Key = prefix
    /\ Len(s3.response.Contents) = 2
    /\ Len(rows.ret) = 1

\* The name an entry shows: its key without the prefix in front and, for a
\* folder, without the '/' at its end.
StrippedName(entry, p) ==
    LET after == SubSeq(entry.Key, Len(p) + 1, Len(entry.Key))
    IN IF entry.kind = "folder"
       THEN SubSeq(after, 1, Len(after) - 1)
       ELSE after

\* C9: for every listed entry whose key starts with the queried prefix and
\* differs from it, displayName is the type marker followed by the key
\* without the prefix in front and, for a folder, without its trailing '/';
\* the marker is the folder marker exactly for the entries of the
\* common-prefix group and the file marker exactly for those of the content
\* group.  With prefix "" folder "a/" shows "a" and file "a/f.txt" shows
\* "a/f.txt"; with prefix "a/" file "a/f.txt" shows "f.txt" as a file.
C9_DisplayName ==
    /\ rows.called =>
        LET entries == Entries(s3.response, prefix)
        IN \A i \in 1..Len(entries) :
            (StartsWith(entries[i].Key, prefix) /\ entries[i].Key # prefix) =>
                /\ i <= Len(rows.ret)
                /\ rows.ret[i][1] =
                     <<IF entries[i].kind = "folder" THEN FolderIcon ELSE FileIcon,
                       " ">> \o StrippedName(entries[i], prefix)
    /\ remove_prefix(PrefixA, <<>>) = <<FolderIcon, " ", "a">>
    /\ remove_prefix(KeyAFTxt, <<>>) = <<FileIcon, " ">> \o KeyAFTxt
    /\ remove_prefix(KeyAFTxt, PrefixA) = <<FileIcon, " ", "f", ".", "t", "x", "t">>

\* Under prefix "a/", a folder and the file "a/f.txt", shown as "f.txt".
C9_Witness ==
    /\ rows.called
    /\ prefix = PrefixA
    /\ Len(s3.response.CommonPrefixes) = 1
    /\ Len(rows.ret) = 2
    /\ rows.ret[1][1][1] = FolderIcon
    /\ rows.ret[2][1] = <<FileIcon, " ", "f", ".", "t", "x", "t">>

\* The unit of a size: the least k with size < 1024^(k+1), at most 4 (TB).
UnitIndex(size) ==
    IF Len(size) = 0 THEN 0 ELSE IF Len(size) > 4 THEN 4 ELSE Len(size) - 1

UnitNames == <<"B", "KB", "MB", "GB", "TB">>

\* size / 1024^k, as the float of human_readable_size.
RECURSIVE Shifted(_, _)
Shifted(size, k) ==
    IF k = 0 THEN [whole |-> size, frac |-> <<>>]
    ELSE LET x == Shifted(size, k - 1)
         IN [whole |-> IF Len(x.whole) = 0 THEN <<>> ELSE Tail(x.whole),
             frac |-> <<IF Len(x.whole) = 0 THEN 0 ELSE x.whole[1]>> \o x.frac]

\* k is the least unit index under which the size is below 1024, in
\* integers (for the sizes that fit them).
LeastUnit(size, k) ==
    LET n == LimbsToInt(size)
    IN /\ n < Kilo ^ (k + 1)
       /\ k > 0 => n >= Kilo ^ k

\* C10: human_readable_size divides by 1024 and takes the first of B, KB,
\* MB, GB, TB under which the value is below 1024 (TB when none of B..GB
\* is): the unit index is the least k with size < 1024^(k+1), at most TB,
\* and the value shown is size / 1024^k to one decimal.  0 renders as
\* "0.0 B", 1536 as "1.5 KB", 1073741824 as "1.0 GB", and every folder
\* entry as "0.0 B".
C10_HumanReadableSize ==
    /\ \A o \in bucket :
        /\ human_readable_size(o.Size) =
             Format1f(Shifted(o.Size, UnitIndex(o.Size)))
                \o " " \o UnitNames[UnitIndex(o.Size) + 1]
        /\ Len(o.Size) <= 3 => LeastUnit(o.Size, UnitIndex(o.Size))
        /\ Len(o.Size) > 3 => UnitIndex(o.Size) = (IF Len(o.Size) = 4 THEN 3 ELSE 4)
    /\ rows.called =>
        /\ Len(rows.ret) = Len(s3.ret)
        /\ \A i \in 1..Len(rows.ret) :
            /\ rows.ret[i][2] = human_readable_size(s3.ret[i].Size)
            /\ i <= Len(s3.response.CommonPrefixes) => rows.ret[i][2] = "0.0 B"
    /\ human_readable_size(<<>>) = "0.0 B"
    /\ human_readable_size(<<512, 1>>) = "1.5 KB"
    /\ human_readable_size(<<0, 0, 0, 1>>) = "1.0 GB"

\* A file of 1024^5 bytes, shown in TB, the last unit.
C10_Witness ==
    /\ rows.called
    /\ prefix = PrefixA
    /\ Len(rows.ret) = 1
    /\ s3.ret[1].Size = <<0, 0, 0, 0, 0, 1>>
    /\ rows.ret[1][2] = "1024.0 TB"

(***************************************************************************)
(* Claims about the navigation.                                            *)
(***************************************************************************)
\* The folder entries among the entries shown, by row.
FolderRows ==
    { i \in 1..Len(Entries(s3.response, prefix)) :
        Entries(s3.response, prefix)[i].kind = "folder" }

\* q is p with something after it.
StrictExtension(q, p) == Len(q) > Len(p) /\ SubSeq(q, 1, Len(p)) = p

\* C13: from the empty prefix, for every folder entry returned for the
\* current prefix, the current prefix followed by the entry's stripped name
\* (its display name without the marker) and '/' is exactly the folder's
\* full key; along any sequence of folder selections the current prefix is
\* a strict extension of the one before, and it is empty or ends with '/'.
C13_NavigationFollowsKeys ==
    /\ []( rows.called =>
             /\ Len(rows.ret) = Len(Entries(s3.response, prefix))
             /\ \A i \in FolderRows :
                  /\ IsFolderRow(rows.ret[i])
                  /\ NextPrefix(prefix, rows.ret[i])
                        = Entries(s3.response, prefix)[i].Key )
    /\ []( prefix = <<>> \/ EndsWith(prefix, "/") )
    /\ [][ prefix' # prefix =>
             /\ nav'.row \in FolderRows
             /\ nav'.from = prefix
             /\ prefix' = Entries(s3.response, prefix)[nav'.row].Key
             /\ StrictExtension(prefix', prefix) ]_vars

\* A folder has been selected inside a folder, and its entries are shown.
C13_Witness ==
    /\ nav.row > 0
    /\ nav.from # <<>>
    /\ StrictExtension(prefix, nav.from)
    /\ rows.called
    /\ Len(rows.ret) > 0

====
